---- MODULE Spec2Model ----
(***************************************************************************)
(* A model of the embedded-builder crate: the generic Register<T> builder  *)
(* (src/src/register.rs), the masked bit primitives and the accessor       *)
(* generation macros (src/src/helpers.rs) and the Region view              *)
(* (src/src/region.rs).                                                    *)
(*                                                                         *)
(* A Register<T> is the tuple struct Register(usize, T): field .0 is the   *)
(* address (r[1] here) and field .1 the cached value (r[2] here).  T is an *)
(* unsigned integer of `bits` bits; every operation on T is computed       *)
(* modulo 2^bits.  `checks` is the build's overflow-checks setting: with   *)
(* it on, a shift by bits or more panics; with it off, the shift amount    *)
(* wraps to the width.                                                     *)
(***************************************************************************)
EXTENDS Integers, Sequences, FiniteSets, TLC

VARIABLES
    bits,       \* width in bits of the register value type T
    checks,     \* TRUE when the build has overflow checks enabled
    r,          \* the caller's register binding <<address, value>>, Moved once consumed
    ret,        \* what the last call returned (a detached register, a value, a flag)
    last,       \* the last event: [op, args, pre] with pre the binding before it
    acc,        \* the hardware accesses performed since the start of the last event
    mem,        \* the memory the addresses refer to
    panicked,   \* TRUE once a call has panicked (the program is aborted)
    opnd,       \* the field [shift, mask, val] the caller works on, when it is fixed
    chain,      \* the builder calls of the chain under observation, <<>> when none is
    region,     \* the Region's slice <<address, length>>, <<>> before Region::new
    table,      \* the field table handed to register!
    gen,        \* what register! expanded the table to
    written     \* per generated field, <<v>> for the value v last handed to its write method

vars == <<bits, checks, r, ret, last, acc, mem, panicked, opnd, chain, region, table,
          gen, written>>

----------------------------------------------------------------------------
(* Bounds of the model *)

\* width of the small integer type the exhaustive checks run on
W == 4
\* largest operand drawn where a register is bound to hardware
MaxArg == 1

----------------------------------------------------------------------------
(* The integer capability model: RegisterType<T> *)

Word == 0 .. (2^bits - 1)

T_zero == 0

T_one == 1

T_default == 0

RECURSIVE AndN(_, _, _)
AndN(x, y, n) ==
    IF n = 0 THEN 0
    ELSE ((x % 2) * (y % 2)) + 2 * AndN(x \div 2, y \div 2, n - 1)

RECURSIVE OrN(_, _, _)
OrN(x, y, n) ==
    IF n = 0 THEN 0
    ELSE (IF (x % 2) + (y % 2) > 0 THEN 1 ELSE 0) + 2 * OrN(x \div 2, y \div 2, n - 1)

BitAnd(x, y) == AndN(x, y, bits)

BitOr(x, y) == OrN(x, y, bits)

Not(x) == (2^bits - 1) - x

\* a shift by bits or more: a panic under overflow checks
ShiftOverflows(s) == checks /\ s >= bits

\* the shift the hardware performs: the amount wraps to the width
Shl(x, s) == (x * 2^(s % bits)) % 2^bits

Shr(x, s) == x \div 2^(s % bits)

----------------------------------------------------------------------------
(* The masked bit primitives *)

\* write_masked clearing the mask where it stands instead of where the field is
write_masked_unshifted_clear(write, shift, mask, val) ==
    BitOr(BitAnd(write, Not(mask)), Shl(BitAnd(val, mask), shift))

\* write_masked masking the value after it is shifted instead of before
write_masked_shift_first(write, shift, mask, val) ==
    BitOr(BitAnd(write, Not(Shl(mask, shift))), BitAnd(Shl(val, shift), mask))

write_masked(write, shift, mask, val) ==
    BitOr(BitAnd(write, Not(Shl(mask, shift))), Shl(BitAnd(val, mask), shift))

\* read_masked masking the value without shifting it down
read_masked_noshift(read, shift, mask) == BitAnd(read, mask)

read_masked(read, shift, mask) == BitAnd(Shr(read, shift), mask)

----------------------------------------------------------------------------
(* Hardware *)

\* the addresses a register is bound to
Addrs == {0, 1}

Access(kind, addr, val) == [kind |-> kind, addr |-> addr, val |-> val]

read_volatile(addr) == mem[addr]

write_volatile(addr, val) == [mem EXCEPT ![addr] = val]

----------------------------------------------------------------------------
(* The register container *)

Register(addr, val) == <<addr, val>>

Moved == <<>>

NoRet == [kind |-> "none"]

RetReg(reg) == [kind |-> "reg", reg |-> reg]

RetVal(op, args, val) == [kind |-> "val", op |-> op, args |-> args, val |-> val]

Call(op, args) == [op |-> op, args |-> args, pre |-> r]

Live == ~panicked /\ r # Moved

\* the variables no register call touches
others == <<bits, checks, opnd, region, table, gen, written>>

Panic(op, args) ==
    /\ panicked' = TRUE
    /\ last' = Call(op, args)
    /\ ret' = NoRet
    /\ acc' = <<>>
    /\ UNCHANGED <<r, mem, chain, others>>

new(addr) ==
    /\ ~panicked
    /\ r' = Register(addr, T_default)
    /\ last' = Call("new", <<addr>>)
    /\ ret' = NoRet
    /\ acc' = <<>>
    /\ UNCHANGED <<mem, panicked, chain, others>>

\* read() storing the value read in the receiver and returning the receiver
read_in_place ==
    /\ Live
    /\ r' = Register(r[1], read_volatile(r[1]))
    /\ ret' = RetReg(r')
    /\ acc' = <<Access("read", r[1], mem[r[1]])>>
    /\ last' = Call("read", <<>>)
    /\ UNCHANGED <<mem, panicked, chain, others>>

read ==
    /\ Live
    /\ ret' = RetReg(Register(r[1], read_volatile(r[1])))
    /\ acc' = <<Access("read", r[1], mem[r[1]])>>
    /\ last' = Call("read", <<>>)
    /\ UNCHANGED <<r, mem, panicked, chain, others>>

\* zero() built like read(): it reads the hardware before zeroing the copy
zero_reads ==
    /\ Live
    /\ ret' = RetReg(Register(r[1], T_zero))
    /\ acc' = <<Access("read", r[1], read_volatile(r[1]))>>
    /\ last' = Call("zero", <<>>)
    /\ UNCHANGED <<r, mem, panicked, chain, others>>

zero ==
    /\ Live
    /\ ret' = RetReg(Register(r[1], T_zero))
    /\ acc' = <<>>
    /\ last' = Call("zero", <<>>)
    /\ UNCHANGED <<r, mem, panicked, chain, others>>

\* the caller binds the register a call returned: r = r.zero()
rebind ==
    /\ ~panicked
    /\ ret.kind = "reg"
    /\ r' = ret.reg
    /\ ret' = NoRet
    /\ UNCHANGED <<last, acc, mem, panicked, chain, others>>

\* a query: it leaves the binding and the last event alone
Query(op, args, val) ==
    /\ ret' = RetVal(op, args, val)
    /\ UNCHANGED <<r, last, acc, mem, panicked, chain, others>>

\* a builder call: it consumes the binding and returns it with a new value
Build(op, args, val) ==
    /\ r' = Register(r[1], val)
    /\ last' = Call(op, args)
    /\ ret' = NoRet
    /\ acc' = <<>>
    /\ chain' = IF chain = <<>> THEN chain ELSE Append(chain, <<op, args>>)
    /\ UNCHANGED <<mem, panicked, others>>

value ==
    /\ Live
    /\ Query("value", <<>>, r[2])

set(val) ==
    /\ Live
    /\ Build("set", <<val>>, val)

and(val) ==
    /\ Live
    /\ Build("and", <<val>>, BitAnd(r[2], val))

or(val) ==
    /\ Live
    /\ Build("or", <<val>>, BitOr(r[2], val))

\* clear() keeping the bits under the mask instead of clearing them
clear_keeps(mask) ==
    /\ Live
    /\ Build("clear", <<mask>>, BitAnd(r[2], mask))

clear(mask) ==
    /\ Live
    /\ Build("clear", <<mask>>, BitAnd(r[2], Not(mask)))

get_bit(i) ==
    /\ Live
    /\ IF ShiftOverflows(i)
       THEN Panic("get_bit", <<i>>)
       ELSE Query("get_bit", <<i>>, BitAnd(r[2], Shl(T_one, i)) # T_zero)

\* set_bit() clearing with the bit itself instead of its complement
set_bit_unnegated(i, v) ==
    /\ Live
    /\ IF ShiftOverflows(i)
       THEN Panic("set_bit", <<i, v>>)
       ELSE Build("set_bit", <<i, v>>,
                  IF v THEN BitOr(r[2], Shl(T_one, i))
                       ELSE BitAnd(r[2], Shl(T_one, i)))

set_bit(i, v) ==
    /\ Live
    /\ IF ShiftOverflows(i)
       THEN Panic("set_bit", <<i, v>>)
       ELSE Build("set_bit", <<i, v>>,
                  IF v THEN BitOr(r[2], Shl(T_one, i))
                       ELSE BitAnd(r[2], Not(Shl(T_one, i))))

get_masked(shift, mask) ==
    /\ Live
    /\ IF ShiftOverflows(shift)
       THEN Panic("get_masked", <<shift, mask>>)
       ELSE Query("get_masked", <<shift, mask>>, read_masked(r[2], shift, mask))

set_masked(shift, mask, val) ==
    /\ Live
    /\ IF ShiftOverflows(shift)
       THEN Panic("set_masked", <<shift, mask, val>>)
       ELSE Build("set_masked", <<shift, mask, val>>,
                  write_masked(r[2], shift, mask, val))

write ==
    /\ Live
    /\ mem' = write_volatile(r[1], r[2])
    /\ acc' = <<Access("write", r[1], r[2])>>
    /\ last' = Call("write", <<>>)
    /\ r' = Moved
    /\ ret' = NoRet
    /\ UNCHANGED <<panicked, chain, others>>

\* the hardware changes a location on its own
hw_change(addr, val) ==
    /\ ~panicked
    /\ mem[addr] # val
    /\ mem' = [mem EXCEPT ![addr] = val]
    /\ last' = Call("hw_change", <<addr, val>>)
    /\ acc' = <<>>
    /\ UNCHANGED <<r, ret, panicked, chain, others>>

----------------------------------------------------------------------------
(* The Region view *)

RegionCall(op, args) == [op |-> op, args |-> args, pre |-> mem]

\* the variables no region call touches
regs == <<bits, checks, r, opnd, chain, table, gen, written>>

RegionPanic(op, args) ==
    /\ panicked' = TRUE
    /\ last' = RegionCall(op, args)
    /\ ret' = NoRet
    /\ acc' = <<>>
    /\ UNCHANGED <<mem, region, regs>>

\* a bounds check that lets the index one past the end through
InBounds_inclusive(i, len) == i <= len

\* slice indexing self.0[i]: checked against the slice's length in every build
InBounds(i, len) == i < len

read_addr(addr) ==
    /\ ~panicked
    /\ ret' = RetVal("read_addr", <<addr>>, read_volatile(addr))
    /\ acc' = <<Access("read", addr, mem[addr])>>
    /\ last' = RegionCall("read_addr", <<addr>>)
    /\ UNCHANGED <<mem, region, panicked, regs>>

write_addr(addr, v) ==
    /\ ~panicked
    /\ mem' = write_volatile(addr, v)
    /\ acc' = <<Access("write", addr, v)>>
    /\ last' = RegionCall("write_addr", <<addr, v>>)
    /\ ret' = NoRet
    /\ UNCHANGED <<region, panicked, regs>>

Region_new(addr, len) ==
    /\ ~panicked
    /\ region' = <<addr, len>>
    /\ last' = RegionCall("new", <<addr, len>>)
    /\ ret' = NoRet
    /\ acc' = <<>>
    /\ UNCHANGED <<mem, panicked, regs>>

read_index(i) ==
    /\ ~panicked
    /\ region # <<>>
    /\ IF InBounds(i, region[2])
       THEN /\ ret' = RetVal("read_index", <<i>>, mem[region[1] + i])
            /\ acc' = <<Access("read", region[1] + i, mem[region[1] + i])>>
            /\ last' = RegionCall("read_index", <<i>>)
            /\ UNCHANGED <<mem, region, panicked, regs>>
       ELSE RegionPanic("read_index", <<i>>)

write_index(i, v) ==
    /\ ~panicked
    /\ region # <<>>
    /\ IF InBounds(i, region[2])
       THEN /\ mem' = [mem EXCEPT ![region[1] + i] = v]
            /\ acc' = <<Access("write", region[1] + i, v)>>
            /\ last' = RegionCall("write_index", <<i, v>>)
            /\ ret' = NoRet
            /\ UNCHANGED <<region, panicked, regs>>
       ELSE RegionPanic("write_index", <<i, v>>)

----------------------------------------------------------------------------
(* The accessor generation macros.  A row of a field table is               *)
(* [op, name, field, type, args]: args is <<shift>> for a single bit and     *)
(* <<shift, mask>> for a multi-bit field.  macro_rules! takes the first arm  *)
(* whose pattern matches the row; read_$name and write_$name are taken as   *)
(* the method names read_<name> and write_<name>.                            *)

Row(op, name, field, type, args) ==
    [op |-> op, name |-> name, field |-> field, type |-> type, args |-> args]

NoRule == <<[m |-> "no rules expected this token"]>>

\* a method of the trait or of the impl: which accessor, and over which type
Method(m, row, kind, type) ==
    [m |-> m, name |-> row.name, field |-> row.field, kind |-> kind, type |-> type,
     shift |-> row.args[1], mask |-> IF kind = "masked" THEN row.args[2] ELSE 1]

field_trait(row) ==
    LET n == Len(row.args) IN
    IF row.op = "r" /\ n = 1 THEN <<Method("read", row, "bit", "bool")>>
    ELSE IF row.op = "w" /\ n = 1 THEN <<Method("write", row, "bit", "bool")>>
    ELSE IF row.op = "rw" /\ n = 1
         THEN <<Method("read", row, "bit", "bool"), Method("write", row, "bit", "bool")>>
    ELSE IF row.op = "r" /\ n = 2 THEN <<Method("read", row, "masked", row.type)>>
    ELSE IF row.op = "w" /\ n = 2 THEN <<Method("write", row, "masked", row.type)>>
    ELSE IF row.op = "rw" /\ n = 2
         THEN <<Method("read", row, "masked", row.type),
                Method("write", row, "masked", row.type)>>
    ELSE NoRule

field_method(row) ==
    LET n == Len(row.args) IN
    IF row.op = "r" /\ n = 1 THEN <<Method("read", row, "bit", "bool")>>
    ELSE IF row.op = "w" /\ n = 1 THEN <<Method("write", row, "bit", "bool")>>
    \* the third arm takes a shift and a mask and expands to the single-bit methods
    ELSE IF row.op = "rw" /\ n = 2
         THEN <<Method("read", row, "bit", "bool"), Method("write", row, "bit", "bool")>>
    ELSE IF row.op = "r" /\ n = 2 THEN <<Method("read", row, "masked", row.type)>>
    ELSE IF row.op = "w" /\ n = 2 THEN <<Method("write", row, "masked", row.type)>>
    \* the last arm, (rw, shift, mask) again, is never reached: the third arm took the row
    ELSE NoRule

\* the signature the compiler compares between the trait and its impl
Signature(ms) == [k \in DOMAIN ms |-> <<ms[k].m, ms[k].name, ms[k].type>>]

RECURSIVE Flatten(_)
Flatten(ss) == IF ss = <<>> THEN <<>> ELSE Head(ss) \o Flatten(Tail(ss))

\* register!: the trait from field_trait, the impl from field_method; the crate
\* builds when every row matches an arm and the impl's methods are the trait's
register(tbl) ==
    IF \E k \in DOMAIN tbl :
           \/ field_trait(tbl[k]) = NoRule
           \/ field_method(tbl[k]) = NoRule
           \/ Signature(field_method(tbl[k])) # Signature(field_trait(tbl[k]))
    THEN [state |-> "error"]
    ELSE [state |-> "ok", methods |-> Flatten([k \in DOMAIN tbl |-> field_method(tbl[k])])]

\* the table of the crate's test, and the same two fields declared an access at a time
TESTREG1 ==
    << Row("rw", "bit1", 1, "bool", <<1>>),
       Row("rw", "var1", 1, "u16", <<2, 7>>) >>

TESTREG1_split ==
    << Row("r", "bit1", 1, "bool", <<1>>),
       Row("w", "bit1", 1, "bool", <<1>>),
       Row("r", "var1", 1, "u16", <<2, 7>>),
       Row("w", "var1", 1, "u16", <<2, 7>>) >>

Tables == {TESTREG1, TESTREG1_split}

FieldNames == {"bit1", "var1"}

\* the generated method m of field name, when the expansion has one
Generated(m, name) ==
    IF gen.state = "ok"
    THEN {x \in {gen.methods[k] : k \in DOMAIN gen.methods} : x.m = m /\ x.name = name}
    ELSE {}

register_table(tbl) ==
    /\ ~panicked
    /\ gen.state = "none"
    /\ table' = tbl
    /\ gen' = register(tbl)
    /\ UNCHANGED <<bits, checks, r, ret, last, acc, mem, panicked, opnd, chain, region,
                   written>>

\* self.$field is slot $field of the tuple struct: slot 1 is the cached value
Slot(field) == field + 1

read_field(name) ==
    /\ Live
    /\ \E x \in Generated("read", name) :
          IF ShiftOverflows(x.shift)
          THEN Panic("read_field", <<name>>)
          ELSE Query("read_field", <<name>>,
                     IF x.kind = "bit"
                     THEN BitAnd(r[Slot(x.field)], Shl(1, x.shift)) # 0
                     ELSE read_masked(r[Slot(x.field)], x.shift, x.mask))

\* v is of type `type`: the call compiles when that is the method's parameter type
write_field(name, type, v) ==
    /\ Live
    /\ \E x \in Generated("write", name) :
          /\ x.type = type
          /\ IF ShiftOverflows(x.shift)
             THEN Panic("write_field", <<name, v>>)
             ELSE /\ r' = [r EXCEPT ![Slot(x.field)] =
                             IF x.kind = "bit"
                             THEN IF v THEN BitOr(@, Shl(1, x.shift))
                                       ELSE BitAnd(@, Not(Shl(1, x.shift)))
                             ELSE write_masked(@, x.shift, x.mask, v)]
                  /\ written' = [written EXCEPT ![name] = <<v>>]
                  /\ last' = Call("write_field", <<name, v>>)
                  /\ ret' = NoRet
                  /\ acc' = <<>>
                  /\ UNCHANGED <<bits, checks, mem, panicked, opnd, chain, region, table,
                                 gen>>

----------------------------------------------------------------------------
(* A register at a hardware address: construct, read, build, commit *)

Args == 0 .. MaxArg

\* the bit positions used where a register is bound to hardware
Shifts == {0, 1}

\* no shift drawn here reaches the width of u16, so either build behaves the same
Init ==
    /\ bits = 16
    /\ checks = TRUE
    /\ r = Moved
    /\ ret = NoRet
    /\ last = [op |-> "init", args |-> <<>>, pre |-> Moved]
    /\ acc = <<>>
    /\ mem = [a \in Addrs |-> 0]
    /\ panicked = FALSE
    /\ opnd = <<>>
    /\ chain = <<>>
    /\ region = <<>>
    /\ table = <<>>
    /\ gen = [state |-> "none"]
    /\ written = <<>>

Next ==
    \/ \E a \in Addrs : new(a)
    \/ read
    \/ zero
    \/ rebind
    \/ value
    \/ \E v \in Args : set(v)
    \/ \E v \in Args : and(v)
    \/ \E v \in Args : or(v)
    \/ \E v \in Args : clear(v)
    \/ \E i \in Shifts : get_bit(i)
    \/ \E i \in Shifts, v \in BOOLEAN : set_bit(i, v)
    \/ \E s \in Shifts : get_masked(s, 1)
    \/ \E s \in Shifts, v \in Args : set_masked(s, 1, v)
    \/ write
    \/ \E a \in Addrs, v \in Args : hw_change(a, v)

Spec == Init /\ [][Next]_vars

----------------------------------------------------------------------------
(* The masked primitives on a field fixed by the caller, every raw value,   *)
(* shift, mask and value of a W-bit type, in both builds                    *)

WordOf(n) == 0 .. (2^n - 1)

Blank ==
    /\ ret = NoRet
    /\ acc = <<>>
    /\ mem = [a \in Addrs |-> 0]
    /\ panicked = FALSE
    /\ region = <<>>
    /\ table = <<>>
    /\ gen = [state |-> "none"]
    /\ written = <<>>

InitMasked ==
    /\ bits = W
    /\ checks \in BOOLEAN
    /\ r \in {Register(0, raw) : raw \in WordOf(W)}
    /\ last = [op |-> "init", args |-> <<>>, pre |-> r]
    /\ opnd \in [shift : WordOf(W), mask : WordOf(W), val : WordOf(W)]
    /\ chain = <<>>
    /\ Blank

NextMasked ==
    \/ set_masked(opnd.shift, opnd.mask, opnd.val)
    \/ get_masked(opnd.shift, opnd.mask)

SpecMasked == InitMasked /\ [][NextMasked]_vars

----------------------------------------------------------------------------
(* The bit accessors, every value, index and flag of a W-bit type *)

InitBit ==
    /\ bits = W
    /\ checks \in BOOLEAN
    /\ r \in {Register(0, raw) : raw \in WordOf(W)}
    /\ last = [op |-> "init", args |-> <<>>, pre |-> r]
    /\ opnd = <<>>
    /\ chain = <<>>
    /\ Blank

NextBit ==
    \/ \E i \in Word, v \in BOOLEAN : set_bit(i, v)
    \/ \E i \in Word : get_bit(i)

SpecBit == InitBit /\ [][NextBit]_vars

----------------------------------------------------------------------------
(* The builder chain set(X).and(A).or(B).clear(C), evaluated call by call *)

\* the head of an observed chain: the cached value it starts from, when followed
StartAt(v) == <<"start", <<v>>>>

Start == <<"start", <<>>>>

InitChain ==
    /\ bits = W
    /\ checks \in BOOLEAN
    /\ r \in {Register(0, raw) : raw \in WordOf(W)}
    /\ last = [op |-> "init", args |-> <<>>, pre |-> r]
    /\ opnd = <<>>
    /\ chain = <<Start>>
    /\ Blank

NextChain ==
    \/ Len(chain) = 1 /\ \E v \in Word : set(v)
    \/ Len(chain) = 2 /\ \E v \in Word : and(v)
    \/ Len(chain) = 3 /\ \E v \in Word : or(v)
    \/ Len(chain) = 4 /\ \E v \in Word : clear(v)

SpecChain == InitChain /\ [][NextChain]_vars

----------------------------------------------------------------------------
(* Register<u16> on the values and fields of the crate's tests *)

\* 0x0000, 0xF0F0, 0xFAF0, 0xFFFF
Starts16 == {0, 61680, 64240, 65535}

\* set_masked(0, 0xFF, 0xF0), set_masked(8, 0xF, 0xA), set_masked(12, 0xF, 0xB)
Sets16 == {<<0, 255, 240>>, <<8, 15, 10>>, <<12, 15, 11>>}

\* get_masked(0, 0xf), get_masked(4, 0xf), get_masked(8, 0xff)
Gets16 == {<<0, 15>>, <<4, 15>>, <<8, 255>>}

\* the longest chain of set_masked calls followed
MaxChain == 3

InitTests ==
    /\ bits = 16
    /\ checks \in BOOLEAN
    /\ r \in {Register(0, v) : v \in Starts16}
    /\ last = [op |-> "init", args |-> <<>>, pre |-> r]
    /\ opnd = <<>>
    /\ chain = <<StartAt(r[2])>>
    /\ Blank

NextTests ==
    \/ Len(chain) <= MaxChain /\ \E f \in Sets16 : set_masked(f[1], f[2], f[3])
    \/ \E g \in Gets16 : get_masked(g[1], g[2])

SpecTests == InitTests /\ [][NextTests]_vars

----------------------------------------------------------------------------
(* A Region over a small memory *)

\* cells of the memory the region is mapped into
MemSize == 3
\* largest element value
MaxElem == 1

Cells == 0 .. (MemSize - 1)

Elems == 0 .. MaxElem

InitRegion ==
    /\ bits = 16
    /\ checks \in BOOLEAN
    /\ r = Moved
    /\ ret = NoRet
    /\ last = [op |-> "init", args |-> <<>>, pre |-> <<>>]
    /\ acc = <<>>
    /\ mem \in [Cells -> Elems]
    /\ panicked = FALSE
    /\ opnd = <<>>
    /\ chain = <<>>
    /\ region = <<>>
    /\ table = <<>>
    /\ gen = [state |-> "none"]
    /\ written = <<>>

NextRegion ==
    \* the caller maps the region inside the memory, short of its last cell
    \/ \E a \in Cells, len \in 0 .. MemSize : region = <<>> /\ a + len < MemSize
                                              /\ Region_new(a, len)
    \/ \E i \in 0 .. MemSize : read_index(i)
    \/ \E i \in 0 .. MemSize, v \in Elems : write_index(i, v)
    \/ \E a \in Cells : read_addr(a)
    \/ \E a \in Cells, v \in Elems : write_addr(a, v)

SpecRegion == InitRegion /\ [][NextRegion]_vars

----------------------------------------------------------------------------
(* The accessors register! generates, on Register::<u16>(0, 0) *)

\* largest value handed to a generated multi-bit write
MaxFieldVal == 8

InitGen ==
    /\ bits = 16
    /\ checks \in BOOLEAN
    /\ r = Register(0, 0)
    /\ ret = NoRet
    /\ last = [op |-> "init", args |-> <<>>, pre |-> r]
    /\ acc = <<>>
    /\ mem = [a \in Addrs |-> 0]
    /\ panicked = FALSE
    /\ opnd = <<>>
    /\ chain = <<>>
    /\ region = <<>>
    /\ table = <<>>
    /\ gen = [state |-> "none"]
    /\ written = [n \in FieldNames |-> <<>>]

NextGen ==
    \/ \E tbl \in Tables : register_table(tbl)
    \/ \E n \in FieldNames : read_field(n)
    \/ \E n \in FieldNames, v \in BOOLEAN : write_field(n, "bool", v)
    \/ \E n \in FieldNames, v \in 0 .. MaxFieldVal : write_field(n, "u16", v)

SpecGen == InitGen /\ [][NextGen]_vars

----------------------------------------------------------------------------
(* Properties *)

\* bit k of x
Bit(x, k) == (x \div 2^k) % 2

BitIdx == 0 .. (bits - 1)

\* the number of bits of the mask, up to its highest set bit
MaskWidth(mask) == Cardinality({k \in BitIdx : 2^k <= mask})

\* C1: set_masked (write_masked) leaves every bit of the cached value outside
\* (mask << shift) as it was before the call.
C1_NonInterference ==
    last.op = "set_masked" =>
        LET field == Shl(last.args[2], last.args[1]) IN
        \A k \in BitIdx : Bit(field, k) = 0 => Bit(r[2], k) = Bit(last.pre[2], k)

\* C1 witness: a completed set_masked changed the value of a register that has a
\* set bit outside a non-empty field placed above bit 0.
C1_Witness ==
    /\ last.op = "set_masked"
    /\ ~panicked
    /\ last.args[1] \in 1 .. (bits - 1)
    /\ r[2] # last.pre[2]
    /\ LET field == Shl(last.args[2], last.args[1]) IN
       /\ field # 0
       /\ \E k \in BitIdx : Bit(field, k) = 0 /\ Bit(last.pre[2], k) = 1

\* the field of the last set_masked was read back with the same shift and mask
ReadBack ==
    /\ last.op = "set_masked"
    /\ ret.kind = "val"
    /\ ret.op = "get_masked"
    /\ ret.args = <<last.args[1], last.args[2]>>

\* a mask that describes a width: contiguous bits from bit 0
IsWidthMask(mask) == \E n \in 0 .. bits : mask = 2^n - 1

\* C2 as stated: for every raw value, shift, mask and value fitting within the
\* mask's width, get_masked after set_masked returns value & mask.  The masks
\* are taken to be those that describe a width, the most favourable reading of the law.
C2_RoundTrip_Stated ==
    (ReadBack /\ IsWidthMask(last.args[2]) /\ last.args[3] < 2^MaskWidth(last.args[2])) =>
        ret.val = BitAnd(last.args[3], last.args[2])

\* C2 as amended: the round trip holds, for every mask, when in addition the
\* shift is below the register's width and mask << shift loses no bit of the mask.
C2_RoundTrip ==
    ( /\ ReadBack
      /\ last.args[3] < 2^MaskWidth(last.args[2])
      /\ last.args[1] < bits
      /\ last.args[2] * 2^last.args[1] < 2^bits ) =>
        ret.val = BitAnd(last.args[3], last.args[2])

\* C2 witness: a non-zero value written into a field above bit 0 of a register
\* whose value the write changed, and read back.
C2_Witness ==
    /\ ReadBack
    /\ last.args[1] \in 1 .. (bits - 1)
    /\ last.args[2] * 2^last.args[1] < 2^bits
    /\ last.args[3] < 2^MaskWidth(last.args[2])
    /\ last.args[3] > 0
    /\ r[2] # last.pre[2]
    /\ ret.val = last.args[3]

\* C3: read() performs exactly one hardware read at the register's address,
\* write() exactly one hardware write there of the cached value it held, no other
\* call accesses hardware, and no call changes the address.
C3_HardwareAccess ==
    /\ last.op = "read" =>
          /\ Len(acc) = 1
          /\ acc[1].kind = "read"
          /\ acc[1].addr = last.pre[1]
    /\ last.op = "write" =>
          /\ acc = <<Access("write", last.pre[1], last.pre[2])>>
          /\ mem[last.pre[1]] = last.pre[2]
    /\ last.op \notin {"read", "write"} => acc = <<>>
    /\ (last.op \notin {"init", "new"} /\ r # Moved) => r[1] = last.pre[1]
    /\ (last.op \notin {"init", "new"} /\ ret.kind = "reg") => ret.reg[1] = last.pre[1]

\* C3 witness: a register at address 1 whose value was built up was committed.
C3_Witness ==
    /\ last.op = "write"
    /\ last.pre[1] = 1
    /\ last.pre[2] > 1
    /\ mem[1] = last.pre[2]
    /\ mem[0] # mem[1]

\* C4: read() returns a new register with the receiver's address and the value
\* the hardware holds at that address, and leaves the receiver as it was.
C4_ReadDetached ==
    (last.op = "read" /\ ret.kind = "reg") =>
        /\ ret.reg = Register(last.pre[1], mem[last.pre[1]])
        /\ r = last.pre

\* C4 witness: a read at address 1 returned a non-zero value that differs from
\* the receiver's cached value.
C4_Witness ==
    /\ last.op = "read"
    /\ ret.kind = "reg"
    /\ r[1] = 1
    /\ ret.reg[2] # 0
    /\ r[2] # 0
    /\ ret.reg[2] # r[2]

\* the rows of the table that are read-write single bits, and read-write fields
RwBits == {table[k] : k \in {j \in DOMAIN table : table[j].op = "rw" /\ Len(table[j].args) = 1}}

RwFields == {table[k] : k \in {j \in DOMAIN table : table[j].op = "rw" /\ Len(table[j].args) = 2}}

LastWritten(name, none) == IF written[name] = <<>> THEN none ELSE written[name][1]

\* C5: a table with a read-write bit at shift b and a read-write field (s, m)
\* generates accessors on a zero register such that the field reads 0 at first,
\* then the last value written & m, the bit reads the last flag written, and the
\* raw value is (flag << b) | ((value & m) << s).
C5_GeneratedAccessors ==
    (RwBits # {} /\ RwFields # {}) =>
        /\ gen.state = "ok"
        /\ \A b \in RwBits, f \in RwFields :
              LET flag == LastWritten(b.name, FALSE)
                  val == BitAnd(LastWritten(f.name, 0), f.args[2])
              IN  /\ r[2] = (IF flag THEN 2^b.args[1] ELSE 0) + val * 2^f.args[1]
                  /\ (ret.kind = "val" /\ ret.op = "read_field" /\ ret.args = <<f.name>>)
                         => ret.val = val
                  /\ (ret.kind = "val" /\ ret.op = "read_field" /\ ret.args = <<b.name>>)
                         => ret.val = flag

\* the bit of the last set_bit was read back with the same index
BitReadBack ==
    /\ ret.kind = "val"
    /\ ret.op = "get_bit"
    /\ ret.args = <<last.args[1]>>

\* C6 as stated: for every cached value and bit index i, get_bit(i) after
\* set_bit(i, v) yields v and no bit other than bit i has changed.
C6_BitAccessors_Stated ==
    last.op = "set_bit" =>
        /\ \A k \in BitIdx : k # last.args[1] => Bit(r[2], k) = Bit(last.pre[2], k)
        /\ BitReadBack => ret.val = last.args[2]

\* C6 as amended: the same for every bit index i below the register's width.
C6_BitAccessors ==
    (last.op = "set_bit" /\ last.args[1] < bits) =>
        /\ ~panicked
        /\ \A k \in BitIdx : k # last.args[1] => Bit(r[2], k) = Bit(last.pre[2], k)
        /\ BitReadBack => ret.val = last.args[2]

\* C6 witness: a bit that was set was cleared, in a register with another bit
\* set, and read back as clear.
C6_Witness ==
    /\ last.op = "set_bit"
    /\ last.args[1] < bits
    /\ last.args[2] = FALSE
    /\ Bit(last.pre[2], last.args[1]) = 1
    /\ r[2] # 0
    /\ BitReadBack
    /\ ret.val = FALSE

\* C7: set(X).and(A).or(B).clear(C) leaves the cached value ((X & A) | B) & ~C,
\* whatever the register held before: bit by bit, clear if C has the bit, else
\* set if B has it, else set when both X and A have it.
C7_ChainDeterminism ==
    Len(chain) = 5 =>
        /\ <<chain[2][1], chain[3][1], chain[4][1], chain[5][1]>> = <<"set", "and", "or", "clear">>
        /\ LET X == chain[2][2][1]
               A == chain[3][2][1]
               B == chain[4][2][1]
               C == chain[5][2][1]
           IN  \A k \in BitIdx :
                   Bit(r[2], k) = IF Bit(C, k) = 1 THEN 0
                                  ELSE IF Bit(B, k) = 1 THEN 1
                                  ELSE Bit(X, k) * Bit(A, k)

\* C7 witness: a finished chain in which every call changed the value it found.
C7_Witness ==
    /\ Len(chain) = 5
    /\ LET X == chain[2][2][1]
           A == chain[3][2][1]
           B == chain[4][2][1]
           C == chain[5][2][1]
       IN  /\ BitAnd(X, A) # X
           /\ BitOr(BitAnd(X, A), B) # BitAnd(X, A)
           /\ r[2] # BitOr(BitAnd(X, A), B)
           /\ r[2] # 0

\* C8: get_bit, set_bit, get_masked and set_masked never abort, whatever the
\* shift or bit index, those at or above the register's width included.
C8_Total ==
    last.op \in {"get_bit", "set_bit", "get_masked", "set_masked"} => ~panicked

\* C9: read_index(i) and write_index(i, v) with i at or beyond the region's
\* length fail without touching memory; with i below it they access element i
\* and nothing else.
C9_RegionBounds ==
    last.op \in {"read_index", "write_index"} =>
        LET i == last.args[1]
            at == region[1] + last.args[1]
        IN  IF i >= region[2]
            THEN /\ panicked
                 /\ acc = <<>>
                 /\ ret = NoRet
                 /\ mem = last.pre
            ELSE /\ ~panicked
                 /\ Len(acc) = 1
                 /\ acc[1].addr = at
                 /\ \A c \in Cells \ {at} : mem[c] = last.pre[c]
                 /\ last.op = "read_index" => (mem = last.pre /\ ret.val = last.pre[at])
                 /\ last.op = "write_index" => mem[at] = last.args[2]

\* C9 witness: a non-empty region was indexed one past its end and the call failed.
C9_Witness ==
    /\ last.op = "read_index"
    /\ region[2] > 0
    /\ last.args[1] = region[2]
    /\ panicked

S1 == <<"set_masked", <<0, 255, 240>>>>

S2 == <<"set_masked", <<8, 15, 10>>>>

S3 == <<"set_masked", <<12, 15, 11>>>>

\* the values the three set_masked calls of the scenario leave, starting from v
Scenario(v) ==
    /\ chain = <<StartAt(v), S1>> => r[2] = 240
    /\ chain = <<StartAt(v), S1, S2>> => r[2] = 2800
    /\ chain = <<StartAt(v), S1, S2, S3>> => r[2] = 47856

\* C10 as stated: from the cached value 0xF0F0, set_masked(0, 0xFF, 0xF0) yields
\* 0x00F0, then set_masked(8, 0xF, 0xA) yields 0x0AF0, then
\* set_masked(12, 0xF, 0xB) yields 0xBAF0.
C10_Scenario_Stated == Scenario(61680)

\* C10 as amended: the same three calls yield 0x00F0, 0x0AF0 and 0xBAF0 starting
\* from the cached value 0x0000.
C10_Scenario == Scenario(0)

\* C10 witness: the three calls were made in order from 0x0000 and left 0xBAF0.
C10_Witness ==
    /\ chain = <<StartAt(0), S1, S2, S3>>
    /\ r[2] = 47856

====
